---- MODULE Spec2Model ----
(***************************************************************************)
(* Model of MYWEB/app.py: the request-scoped SQLite connection (get_db,    *)
(* close_connection), the table initialiser (init_db) and the two JSON     *)
(* handlers submit_contact and chat_send with its rule-based reply.        *)
(*                                                                         *)
(* Text is a sequence of one-character strings, so that strip(), lower()   *)
(* and the substring test `in` are computed rather than assumed.  The      *)
(* created_at column is not modelled: no handler ever reads it back.       *)
(***************************************************************************)
EXTENDS Integers, Sequences, FiniteSets, TLC

\* ------------------------------------------------------------------ bounds
\* Number of application contexts (requests or start-ups) in one behaviour.
MaxRequests == 2
\* Number of word fragments concatenated into a probed chat message.
MaxWords == 2

\* ------------------------------------------------------------------ text
Whitespace == {" ", "\t", "\n"}

UpperChars == <<"A","B","C","D","E","F","G","H","I","J","K","L","M",
                "N","O","P","Q","R","S","T","U","V","W","X","Y","Z">>
LowerChars == <<"a","b","c","d","e","f","g","h","i","j","k","l","m",
                "n","o","p","q","r","s","t","u","v","w","x","y","z">>

\* str.lower() on one character
LowerChar(c) ==
    IF \E i \in 1..Len(UpperChars) : UpperChars[i] = c
    THEN LowerChars[CHOOSE i \in 1..Len(UpperChars) : UpperChars[i] = c]
    ELSE c

\* str.lower()
Lower(s) == [i \in 1..Len(s) |-> LowerChar(s[i])]

\* str.upper() on one character (used only to build case variants of inputs)
UpperChar(c) ==
    IF \E i \in 1..Len(LowerChars) : LowerChars[i] = c
    THEN UpperChars[CHOOSE i \in 1..Len(LowerChars) : LowerChars[i] = c]
    ELSE c

\* str.strip(): drop leading and trailing whitespace
Strip(s) ==
    LET keep == {i \in 1..Len(s) : s[i] \notin Whitespace}
    IN  IF keep = {} THEN <<>>
        ELSE LET lo == CHOOSE i \in keep : \A j \in keep : i <= j
                 hi == CHOOSE i \in keep : \A j \in keep : j <= i
             IN  SubSeq(s, lo, hi)

\* Python's `sub in s` for strings
Contains(sub, s) ==
    \E i \in 1..(Len(s) - Len(sub) + 1) : SubSeq(s, i, i + Len(sub) - 1) = sub

\* ------------------------------------------------------------------ replies
\* The five canned replies; each text is held as a one-chunk sequence.
GREETING == <<"Hello! How can I help you today? You can ask about projects, services, or hiring.">>
PROJECTS == <<"I build full-stack and AI applications - check the Projects section for examples.">>
HIRING   == <<"Thanks for your interest! Please share a brief message about your requirements - I'll get back to you.">>
HELP     == <<"Tell me more about the problem and I'll suggest a solution or next steps.">>
FALLBACK == <<"Thanks for the message - I'll review it and respond soon. Can you share more details?">>

kw_hi      == <<"h","i">>
kw_hello   == <<"h","e","l","l","o">>
kw_hey     == <<"h","e","y">>
kw_project == <<"p","r","o","j","e","c","t">>
kw_work    == <<"w","o","r","k">>
kw_hire    == <<"h","i","r","e">>
kw_hire_me == <<"h","i","r","e"," ","m","e">>
kw_pricing == <<"p","r","i","c","i","n","g">>
kw_help    == <<"h","e","l","p">>
kw_support == <<"s","u","p","p","o","r","t">>

\* Mutant: the greeting rule is tried after the hiring rule.
BotReplyHireFirst(message) ==
    LET msg_lower == Lower(message)
    IN  IF Contains(kw_hire, msg_lower) \/ Contains(kw_pricing, msg_lower)
        THEN HIRING
        ELSE IF \E greet \in {kw_hi, kw_hello, kw_hey} : Contains(greet, msg_lower)
        THEN GREETING
        ELSE IF Contains(kw_project, msg_lower) \/ Contains(kw_work, msg_lower)
        THEN PROJECTS
        ELSE IF Contains(kw_help, msg_lower) \/ Contains(kw_support, msg_lower)
        THEN HELP
        ELSE FALLBACK

\* Mutant: the keywords are matched against the message as typed.
BotReplyNoLower(message) ==
    LET msg_lower == message
    IN  IF \E greet \in {kw_hi, kw_hello, kw_hey} : Contains(greet, msg_lower)
        THEN GREETING
        ELSE IF Contains(kw_project, msg_lower) \/ Contains(kw_work, msg_lower)
        THEN PROJECTS
        ELSE IF    Contains(kw_hire, msg_lower) \/ Contains(kw_hire_me, msg_lower)
                \/ Contains(kw_pricing, msg_lower)
        THEN HIRING
        ELSE IF Contains(kw_help, msg_lower) \/ Contains(kw_support, msg_lower)
        THEN HELP
        ELSE FALLBACK

\* chat_send's rule chain: the reply for a trimmed, non-empty message.
BotReply(message) ==
    LET msg_lower == Lower(message)
    IN  IF \E greet \in {kw_hi, kw_hello, kw_hey} : Contains(greet, msg_lower)
        THEN GREETING
        ELSE IF Contains(kw_project, msg_lower) \/ Contains(kw_work, msg_lower)
        THEN PROJECTS
        ELSE IF    Contains(kw_hire, msg_lower) \/ Contains(kw_hire_me, msg_lower)
                \/ Contains(kw_pricing, msg_lower)
        THEN HIRING
        ELSE IF Contains(kw_help, msg_lower) \/ Contains(kw_support, msg_lower)
        THEN HELP
        ELSE FALLBACK

\* ------------------------------------------------------------------ payloads
\* A JSON field as `(data.get(k) or '').strip()` sees it: a string, a falsy
\* value (absent, null, 0, false: replaced by ''), or a truthy non-string
\* (a number, a list: .strip() raises AttributeError).
Str(s)  == [t |-> "str", s |-> s]
Absent  == [t |-> "falsy", s |-> <<>>]
NonStr  == [t |-> "truthy", s |-> <<>>]

\* A request body as request.get_json(force=True) sees it: a JSON object, or
\* anything else (invalid JSON raises; a non-object has no .get).
Obj(n, e, m) == [t |-> "obj", name |-> n, email |-> e, message |-> m]
BadBody      == [t |-> "bad", name |-> Absent, email |-> Absent, message |-> Absent]

\* `(data.get(k) or '').strip()`
Field(v)       == IF v.t = "str" THEN Strip(v.s) ELSE <<>>
FieldRaises(v) == v.t = "truthy"

ContactBodies ==
    { BadBody,
      Obj(Str(<<" ","a","l"," ">>), Str(<<"b","@","c","\n">>), Str(<<" ","m"," ","o","\t">>)),
      Obj(Str(<<"a","l">>), Str(<<"b","@","c">>), Absent),
      Obj(Str(<<" ","\t">>), Str(<<"b","@","c">>), Str(<<"m">>)),
      Obj(Str(<<"a","l">>), Absent, Str(<<"m">>)),
      Obj(Absent, Str(<<"b","@","c">>), NonStr) }

ChatBodies ==
    { BadBody,
      Obj(Absent, Absent, Absent),
      Obj(Absent, Absent, Str(<<>>)),
      Obj(Absent, Absent, Str(<<" ","\n"," ">>)),
      Obj(Absent, Absent, Str(<<" ","H","i","!"," ">>)),
      Obj(Absent, Absent, Str(<<"m","y"," ","w","o","r","k">>)) }

\* ------------------------------------------------------------------ state
Contexts == 1..MaxRequests
None == 0

VARIABLES
    schema,     \* names of the tables that exist in appdata.db
    contacts,   \* committed rows of table contacts, in id order
    chats,      \* committed rows of table chats, in id order
    writer,     \* context whose connection holds SQLite's write lock, or None
    conns,      \* connection handles currently open
    closed,     \* connection handles that were opened and then closed
    ctx,        \* per application context: handler position, g, locals, response
    probe       \* the rule chain applied to one message (specification SpecReply)

vars == <<schema, contacts, chats, writer, conns, closed, ctx, probe>>

NoResp == [status |-> 0, ok |-> FALSE, error |-> "", message |-> "", reply |-> <<>>]

\* jsonify(...) with its status code
RespOk(msg)      == [status |-> 200, ok |-> TRUE, error |-> "", message |-> msg, reply |-> <<>>]
RespReply(reply) == [status |-> 200, ok |-> TRUE, error |-> "", message |-> "", reply |-> reply]
RespErr(code, e) == [status |-> code, ok |-> FALSE, error |-> e, message |-> "", reply |-> <<>>]

\* A context before it is entered.  database is g._database; pending holds the
\* rows of the connection's open transaction; opened, fault and saw are
\* history: every handle the context opened, the store fault injected into it,
\* and how many rows the store held when its init_db ran the CREATEs.
IdleCtx ==
    [kind |-> "none", body |-> BadBody, pc |-> "idle", database |-> None,
     pending |-> [contacts |-> <<>>, chats |-> <<>>], resp |-> NoResp, raised |-> FALSE,
     name |-> <<>>, email |-> <<>>, message |-> <<>>, reply |-> <<>>,
     opened |-> {}, fault |-> "none", saw |-> 0]

NoProbe == [raw |-> <<>>, message |-> <<>>, asked |-> FALSE,
            reply |-> <<>>, upper |-> <<>>, lower |-> <<>>]

\* The store after the start-up run of init_db (lines 62-63) on a new file.
Init ==
    /\ schema = {"contacts", "chats"}
    /\ contacts = <<>>
    /\ chats = <<>>
    /\ writer = None
    /\ conns = {}
    /\ closed = {}
    /\ ctx = [r \in Contexts |-> IdleCtx]
    /\ probe = NoProbe

Store == <<schema, contacts, chats, writer>>

\* Contexts are numbered in order of arrival.
Arrives(r) == ctx[r].pc = "idle" /\ \A q \in Contexts : q < r => ctx[q].pc # "idle"

\* ------------------------------------------------------------------ helpers
\* The except-branch of a handler: jsonify({'ok': False, 'error': 'Server error'}), 500
Caught(c, why) ==
    [c EXCEPT !.resp = RespErr(500, "Server error"), !.fault = why, !.pc = "teardown"]

\* An exception leaving init_db: nothing catches it, the app context is popped.
Propagates(c, why) == [c EXCEPT !.raised = TRUE, !.fault = why, !.pc = "teardown"]

Fails(c, why) == IF c.kind = "init" THEN Propagates(c, why) ELSE Caught(c, why)

\* Where each caller continues once get_db() has returned.
AfterGetDb(kind) ==
    IF kind = "contact" THEN "insert" ELSE IF kind = "chat" THEN "insert_user" ELSE "create"

\* sqlite3.connect returns a connection object that did not exist before: it
\* is named by the context that opens it and by how many that context opened.
NewHandle(r) == r + MaxRequests * Cardinality(ctx[r].opened)

NoPending == [contacts |-> <<>>, chats |-> <<>>]

\* AUTOINCREMENT: the next id of a table, seen from the writing connection.
NextId(rows, pend) == Len(rows) + Len(pend) + 1

\* CREATE TABLE [IF NOT EXISTS] t raises "table t already exists" exactly when
\* t exists and the statement lacks IF NOT EXISTS.
CreateRaises(tables, t, if_not_exists) == t \in tables /\ ~if_not_exists

\* The tables after a CREATE TABLE t that did not raise.
CreateTable(tables, t) == tables \cup {t}

\* The rows of t after a CREATE TABLE t that did not raise: a table that
\* exists is left alone, a new one is empty.
RowsAfterCreate(tables, t, rows) == IF t \in tables THEN rows ELSE <<>>

\* ------------------------------------------------------------------ get_db
\* get_db(), called by a handler or by init_db
get_db(r) ==
    /\ ctx[r].pc = "getdb"
    /\ IF ctx[r].database = None
       THEN \/ /\ conns' = conns \cup {NewHandle(r)}
               /\ ctx' = [ctx EXCEPT ![r] = [@ EXCEPT !.database = NewHandle(r),
                                                      !.opened = @ \cup {NewHandle(r)},
                                                      !.pc = AfterGetDb(ctx[r].kind)]]
            \/ /\ conns' = conns       \* sqlite3.connect raises
               /\ ctx' = [ctx EXCEPT ![r] = Fails(@, "connect")]
       ELSE /\ conns' = conns
            /\ ctx' = [ctx EXCEPT ![r] = [@ EXCEPT !.pc = AfterGetDb(ctx[r].kind)]]
    /\ UNCHANGED <<Store, closed, probe>>

\* ------------------------------------------------------------------ close_connection
\* Mutant: the teardown hook forgets to close.
close_connection_leak(r) ==
    /\ ctx[r].pc = "teardown"
    /\ ctx' = [ctx EXCEPT ![r] = [@ EXCEPT !.pc = "done"]]
    /\ UNCHANGED <<Store, conns, closed, probe>>

\* close_connection(exception), run when the application context is popped.
\* Closing a connection rolls back its open transaction and frees its lock.
close_connection(r) ==
    /\ ctx[r].pc = "teardown"
    /\ IF ctx[r].database # None
       THEN /\ conns' = conns \ {ctx[r].database}
            /\ closed' = closed \cup {ctx[r].database}
            /\ writer' = IF writer = r THEN None ELSE writer
            /\ ctx' = [ctx EXCEPT ![r] = [@ EXCEPT !.pending = NoPending, !.pc = "done"]]
       ELSE /\ ctx' = [ctx EXCEPT ![r] = [@ EXCEPT !.pc = "done"]]
            /\ UNCHANGED <<conns, closed, writer>>
    /\ UNCHANGED <<schema, contacts, chats, probe>>

\* ------------------------------------------------------------------ init_db
\* `with app.app_context(): init_db()` of a further start-up of the application
init_db_enter(r) ==
    /\ Arrives(r)
    /\ ctx' = [ctx EXCEPT ![r] = [IdleCtx EXCEPT !.kind = "init", !.pc = "getdb"]]
    /\ UNCHANGED <<Store, conns, closed, probe>>

\* Mutant: the tables are dropped and created again.
init_db_create_drop(r) ==
    /\ ctx[r].pc = "create"
    /\ schema' = {"contacts", "chats"}
    /\ contacts' = <<>>
    /\ chats' = <<>>
    /\ ctx' = [ctx EXCEPT ![r] = [@ EXCEPT !.saw = Len(contacts) + Len(chats),
                                           !.pc = "teardown"]]
    /\ UNCHANGED <<writer, conns, closed, probe>>

\* The two CREATE TABLE IF NOT EXISTS statements and db.commit().  A CREATE
\* is not part of an implicit transaction, so the commit has nothing to write.
init_db_create(r) ==
    /\ ctx[r].pc = "create"
    /\ \/ /\ ~CreateRaises(schema, "contacts", TRUE)
          /\ ~CreateRaises(schema, "chats", TRUE)
          /\ schema' = CreateTable(CreateTable(schema, "contacts"), "chats")
          /\ contacts' = RowsAfterCreate(schema, "contacts", contacts)
          /\ chats' = RowsAfterCreate(schema, "chats", chats)
          /\ ctx' = [ctx EXCEPT ![r] = [@ EXCEPT !.saw = Len(contacts) + Len(chats),
                                                 !.pc = "teardown"]]
       \/ /\ CreateRaises(schema, "contacts", TRUE) \/ CreateRaises(schema, "chats", TRUE)
          /\ ctx' = [ctx EXCEPT ![r] = Propagates(@, "none")]
          /\ UNCHANGED <<schema, contacts, chats>>
       \/ /\ ctx' = [ctx EXCEPT ![r] = Propagates(@, "execute")]   \* the store fails
          /\ UNCHANGED <<schema, contacts, chats>>
    /\ UNCHANGED <<writer, conns, closed, probe>>

\* ------------------------------------------------------------------ submit_contact
\* Mutant: only the name is validated.
ContactParsedNameOnly(body) ==
    LET c == [IdleCtx EXCEPT !.kind = "contact", !.body = body]
    IN  IF    body.t = "bad" \/ FieldRaises(body.name) \/ FieldRaises(body.email)
           \/ FieldRaises(body.message)
        THEN Caught(c, "none")
        ELSE IF Field(body.name) = <<>>
        THEN [c EXCEPT !.resp = RespErr(400, "Name and email are required."),
                       !.pc = "teardown"]
        ELSE [c EXCEPT !.name = Field(body.name), !.email = Field(body.email),
                       !.message = Field(body.message), !.pc = "getdb"]

\* What lines 75-81 make of a body: the caught exception, the 400, or the
\* trimmed fields with the handler continuing to get_db().
ContactParsed(body) ==
    LET c == [IdleCtx EXCEPT !.kind = "contact", !.body = body]
    IN  IF    body.t = "bad" \/ FieldRaises(body.name) \/ FieldRaises(body.email)
           \/ FieldRaises(body.message)
        THEN Caught(c, "none")
        ELSE LET name == Field(body.name)
                 email == Field(body.email)
                 message == Field(body.message)
             IN  IF name = <<>> \/ email = <<>>
                 THEN [c EXCEPT !.resp = RespErr(400, "Name and email are required."),
                                !.pc = "teardown"]
                 ELSE [c EXCEPT !.name = name, !.email = email, !.message = message,
                                !.pc = "getdb"]

\* A POST /submit_contact arrives: parsing and validation
submit_contact_parse(r) ==
    /\ Arrives(r)
    /\ \E body \in ContactBodies : ctx' = [ctx EXCEPT ![r] = ContactParsed(body)]
    /\ UNCHANGED <<Store, conns, closed, probe>>

\* cursor.execute('INSERT INTO contacts ...')
submit_contact_insert(r) ==
    /\ ctx[r].pc = "insert"
    /\ \/ /\ writer \in {None, r}
          /\ "contacts" \in schema
          /\ writer' = r
          /\ ctx' = [ctx EXCEPT ![r] = [@ EXCEPT
                 !.pending.contacts = Append(@,
                     [id |-> NextId(contacts, @), name |-> ctx[r].name,
                      email |-> ctx[r].email, message |-> ctx[r].message, by |-> r]),
                 !.pc = "commit"]]
       \/ /\ writer' = writer       \* the store fails, or stays locked past the timeout
          /\ ctx' = [ctx EXCEPT ![r] = Caught(@, "insert")]
    /\ UNCHANGED <<schema, contacts, chats, conns, closed, probe>>

\* Mutant: the handler answers without committing.
submit_contact_commit_skip(r) ==
    /\ ctx[r].pc = "commit"
    /\ ctx' = [ctx EXCEPT ![r] = [@ EXCEPT
                 !.resp = RespOk("Thanks! Your message was received."),
                 !.pc = "teardown"]]
    /\ UNCHANGED <<Store, conns, closed, probe>>

\* db.commit() and the acknowledgment
submit_contact_commit(r) ==
    /\ ctx[r].pc = "commit"
    /\ \/ /\ contacts' = contacts \o ctx[r].pending.contacts
          /\ writer' = None
          /\ ctx' = [ctx EXCEPT ![r] = [@ EXCEPT
                 !.pending = NoPending,
                 !.resp = RespOk("Thanks! Your message was received."),
                 !.pc = "teardown"]]
       \/ /\ ctx' = [ctx EXCEPT ![r] = Caught(@, "commit")]   \* the commit fails
          /\ UNCHANGED <<contacts, writer>>
    /\ UNCHANGED <<schema, chats, conns, closed, probe>>

\* ------------------------------------------------------------------ chat_send
\* Mutant: the message is validated before it is trimmed.
ChatParsedNoStrip(body) ==
    LET c == [IdleCtx EXCEPT !.kind = "chat", !.body = body]
    IN  IF body.t = "bad" \/ FieldRaises(body.message)
        THEN Caught(c, "none")
        ELSE IF body.message.t # "str" \/ body.message.s = <<>>
        THEN [c EXCEPT !.resp = RespErr(400, "Empty message"), !.pc = "teardown"]
        ELSE [c EXCEPT !.message = Field(body.message), !.pc = "getdb"]

\* What lines 105-108 make of a body.
ChatParsed(body) ==
    LET c == [IdleCtx EXCEPT !.kind = "chat", !.body = body]
    IN  IF body.t = "bad" \/ FieldRaises(body.message)
        THEN Caught(c, "none")
        ELSE LET message == Field(body.message)
             IN  IF message = <<>>
                 THEN [c EXCEPT !.resp = RespErr(400, "Empty message"), !.pc = "teardown"]
                 ELSE [c EXCEPT !.message = message, !.pc = "getdb"]

\* A POST /chat_send arrives: parsing and validation
chat_send_parse(r) ==
    /\ Arrives(r)
    /\ \E body \in ChatBodies : ctx' = [ctx EXCEPT ![r] = ChatParsed(body)]
    /\ UNCHANGED <<Store, conns, closed, probe>>

ChatRow(rows, pend, sender, message, r) ==
    [id |-> NextId(rows, pend), sender |-> sender, message |-> message, by |-> r]

\* cur.execute('INSERT INTO chats ...', ('user', message, ...))
chat_send_insert_user(r) ==
    /\ ctx[r].pc = "insert_user"
    /\ \/ /\ writer \in {None, r}
          /\ "chats" \in schema
          /\ writer' = r
          /\ ctx' = [ctx EXCEPT ![r] = [@ EXCEPT
                 !.pending.chats = Append(@, ChatRow(chats, @, "user", ctx[r].message, r)),
                 !.pc = "commit_user"]]
       \/ /\ writer' = writer
          /\ ctx' = [ctx EXCEPT ![r] = Caught(@, "insert_user")]
    /\ UNCHANGED <<schema, contacts, chats, conns, closed, probe>>

\* Mutant: the user row is left in the open transaction until the second commit.
chat_send_commit_user_late(r) ==
    /\ ctx[r].pc = "commit_user"
    /\ ctx' = [ctx EXCEPT ![r] = [@ EXCEPT !.pc = "insert_bot"]]
    /\ UNCHANGED <<Store, conns, closed, probe>>

\* the first db.commit()
chat_send_commit_user(r) ==
    /\ ctx[r].pc = "commit_user"
    /\ \/ /\ chats' = chats \o ctx[r].pending.chats
          /\ writer' = None
          /\ ctx' = [ctx EXCEPT ![r] = [@ EXCEPT !.pending = NoPending, !.pc = "insert_bot"]]
       \/ /\ ctx' = [ctx EXCEPT ![r] = Caught(@, "commit_user")]
          /\ UNCHANGED <<chats, writer>>
    /\ UNCHANGED <<schema, contacts, conns, closed, probe>>

\* Mutant: the reply is stored with sender 'user'.
chat_send_insert_bot_as_user(r) ==
    /\ ctx[r].pc = "insert_bot"
    /\ writer \in {None, r}
    /\ writer' = r
    /\ ctx' = [ctx EXCEPT ![r] = [@ EXCEPT
           !.reply = BotReply(ctx[r].message),
           !.pending.chats = Append(@, ChatRow(chats, @, "user", BotReply(ctx[r].message), r)),
           !.pc = "commit_bot"]]
    /\ UNCHANGED <<schema, contacts, chats, conns, closed, probe>>

\* Mutant: the bot row stores the user's message instead of the reply.
chat_send_insert_bot_echo(r) ==
    /\ ctx[r].pc = "insert_bot"
    /\ writer \in {None, r}
    /\ writer' = r
    /\ ctx' = [ctx EXCEPT ![r] = [@ EXCEPT
           !.reply = BotReply(ctx[r].message),
           !.pending.chats = Append(@, ChatRow(chats, @, "bot", ctx[r].message, r)),
           !.pc = "commit_bot"]]
    /\ UNCHANGED <<schema, contacts, chats, conns, closed, probe>>

\* The rule chain, then cur.execute('INSERT INTO chats ...', ('bot', reply, ...))
chat_send_insert_bot(r) ==
    /\ ctx[r].pc = "insert_bot"
    /\ LET reply == BotReply(ctx[r].message)
       IN  \/ /\ writer \in {None, r}
              /\ "chats" \in schema
              /\ writer' = r
              /\ ctx' = [ctx EXCEPT ![r] = [@ EXCEPT
                     !.reply = reply,
                     !.pending.chats = Append(@, ChatRow(chats, @, "bot", reply, r)),
                     !.pc = "commit_bot"]]
           \/ /\ writer' = writer
              /\ ctx' = [ctx EXCEPT ![r] = Caught([@ EXCEPT !.reply = reply], "insert_bot")]
    /\ UNCHANGED <<schema, contacts, chats, conns, closed, probe>>

\* the second db.commit() and jsonify({'ok': True, 'reply': reply})
chat_send_commit_bot(r) ==
    /\ ctx[r].pc = "commit_bot"
    /\ \/ /\ chats' = chats \o ctx[r].pending.chats
          /\ writer' = None
          /\ ctx' = [ctx EXCEPT ![r] = [@ EXCEPT !.pending = NoPending,
                                                 !.resp = RespReply(ctx[r].reply),
                                                 !.pc = "teardown"]]
       \/ /\ ctx' = [ctx EXCEPT ![r] = Caught(@, "commit_bot")]
          /\ UNCHANGED <<chats, writer>>
    /\ UNCHANGED <<schema, contacts, conns, closed, probe>>

\* ------------------------------------------------------------------ specification
Next ==
    \E r \in Contexts :
        \/ init_db_enter(r)
        \/ init_db_create(r)
        \/ get_db(r)
        \/ close_connection(r)
        \/ submit_contact_parse(r)
        \/ submit_contact_insert(r)
        \/ submit_contact_commit(r)
        \/ chat_send_parse(r)
        \/ chat_send_insert_user(r)
        \/ chat_send_commit_user(r)
        \/ chat_send_insert_bot(r)
        \/ chat_send_commit_bot(r)

Spec == Init /\ [][Next]_vars

\* ------------------------------------------------------------------ the rule chain alone
\* Fragments from which the probed messages are built: the keywords in
\* several spellings, fragments that make a keyword only when joined to a
\* neighbour, padding, and the message of the precedence example.
Words ==
    { <<"h","i">>, <<"H","e","l","l","o">>, <<"h","e","y">>,
      <<"p","r","o","j","e","c","t">>, <<"W","O","R","K">>,
      <<"h","i","r","e">>, <<"H","I","R","E">>, <<" ","m","e"," ","p","l","e","a","s","e">>,
      <<"p","r","i","c","i","n","g">>, <<"P","r","i","c","i","n","g">>,
      <<"h","e","l","p">>, <<"S","u","p","p","o","r","t">>,
      <<"t","h">>, <<"i","s"," ">>, <<"o","k">>, <<" ">>, <<"\n">>,
      <<",", " ","a","n","y"," ","p","r","o","j","e","c","t","s","?">> }

RECURSIVE Concat(_)
Concat(ws) == IF ws = <<>> THEN <<>> ELSE Head(ws) \o Concat(Tail(ws))

Messages == { Concat(ws) : ws \in UNION { [1..n -> Words] : n \in 0..MaxWords } }

Upper(s) == [i \in 1..Len(s) |-> UpperChar(s[i])]

\* Lines 106-129 of chat_send on one raw message, without the store: the
\* trimmed message and its reply, and the replies to the same message typed
\* in capitals and in small letters.
chat_send_reply(raw) ==
    LET message == Strip(raw)
    IN  [raw |-> raw, message |-> message, asked |-> TRUE,
         reply |-> IF message = <<>> THEN <<>> ELSE BotReply(message),
         upper |-> IF message = <<>> THEN <<>> ELSE BotReply(Strip(Upper(raw))),
         lower |-> IF message = <<>> THEN <<>> ELSE BotReply(Strip(Lower(raw)))]

\* The message to probe is drawn at the start; the store is as after Init.
InitReply ==
    /\ schema = {"contacts", "chats"}
    /\ contacts = <<>>
    /\ chats = <<>>
    /\ writer = None
    /\ conns = {}
    /\ closed = {}
    /\ ctx = [r \in Contexts |-> IdleCtx]
    /\ \E raw \in Messages : probe = [NoProbe EXCEPT !.raw = raw]

Ask ==
    /\ ~probe.asked
    /\ probe' = chat_send_reply(probe.raw)
    /\ UNCHANGED <<Store, conns, closed, ctx>>

NextReply == Ask

SpecReply == InitReply /\ [][NextReply]_vars

\* ------------------------------------------------------------------ C5
\* The chain as the specification lists it: ordered rules, each a set of
\* keywords and a reply; the first rule with a keyword in the text wins.
Rules ==
    << [keys |-> {kw_hi, kw_hello, kw_hey}, reply |-> GREETING],
       [keys |-> {kw_project, kw_work},     reply |-> PROJECTS],
       [keys |-> {kw_hire, kw_pricing},     reply |-> HIRING],
       [keys |-> {kw_help, kw_support},     reply |-> HELP] >>

Matches(i, text) == \E k \in Rules[i].keys : Contains(k, text)

FirstMatch(text) ==
    IF \E i \in 1..Len(Rules) : Matches(i, text)
    THEN Rules[CHOOSE i \in 1..Len(Rules) :
                 Matches(i, text) /\ \A j \in 1..(i - 1) : ~Matches(j, text)].reply
    ELSE FALLBACK

HeyAnyProjects == <<"h","e","y",","," ","a","n","y"," ","p","r","o","j","e","c","t","s","?">>

\* C5: the reply to a non-empty trimmed message is the reply of the first rule,
\* in the order greeting, projects, hiring, help, that has a keyword in the
\* lower-cased message, else the fallback; "hey, any projects?" gets the
\* greeting; and the message typed in capitals or in small letters gets the
\* same reply.
C5_FirstMatchWins ==
    (probe.asked /\ probe.message # <<>>) =>
        /\ probe.reply = FirstMatch(Lower(probe.message))
        /\ (probe.message = HeyAnyProjects => probe.reply = GREETING)
        /\ probe.upper = probe.reply
        /\ probe.lower = probe.reply

C5_Witness ==
    /\ probe.asked
    /\ probe.message = HeyAnyProjects
    /\ probe.reply = GREETING

\* ------------------------------------------------------------------ C10
\* C10: a message whose lower-cased text contains "hire" gets the greeting,
\* never the hiring reply; the hiring reply is given exactly to the messages
\* that contain "pricing" and none of hi, hello, hey, project, work.
C10_HireIsGreeted ==
    (probe.asked /\ probe.message # <<>>) =>
        LET text == Lower(probe.message)
        IN  /\ Contains(kw_hire, text) => probe.reply = GREETING
            /\ probe.reply = HIRING <=>
                  /\ Contains(kw_pricing, text)
                  /\ \A k \in {kw_hi, kw_hello, kw_hey, kw_project, kw_work} :
                        ~Contains(k, text)

C10_Witness ==
    /\ probe.asked
    /\ probe.raw # Lower(probe.raw)
    /\ Contains(kw_hire_me, Lower(probe.message))
    /\ probe.reply = GREETING

\* ------------------------------------------------------------------ claims on the handlers
RowsBy(rows, r) == SelectSeq(rows, LAMBDA x : x.by = r)

\* The handler of r has returned its response.
Answered(r) == ctx[r].pc \in {"teardown", "done"}

\* The body is a JSON object whose fields are strings, null or absent.
WellTyped(body) ==
    body.t = "obj" /\ ~FieldRaises(body.name) /\ ~FieldRaises(body.email)
                   /\ ~FieldRaises(body.message)

ValidContact(body) ==
    WellTyped(body) /\ Field(body.name) # <<>> /\ Field(body.email) # <<>>

InvalidContact(body) ==
    WellTyped(body) /\ (Field(body.name) = <<>> \/ Field(body.email) = <<>>)

ValidChat(body)   == WellTyped(body) /\ Field(body.message) # <<>>
InvalidChat(body) == WellTyped(body) /\ Field(body.message) = <<>>

\* C1: a submit_contact request with well-typed fields whose trimmed name and
\* email are non-empty, and which meets no store fault, is answered 200 ok:true
\* and has put exactly one row, with the trimmed name, email and message, into
\* contacts (none before it is answered beyond that one) and none into chats.
C1_ContactAccepted ==
    \A r \in Contexts :
        (ctx[r].kind = "contact" /\ ValidContact(ctx[r].body)) =>
            LET mine == RowsBy(contacts, r)
            IN  /\ \A i \in 1..Len(chats) : chats[i].by # r
                /\ Len(mine) <= 1
                /\ (Answered(r) /\ ctx[r].fault = "none") =>
                      /\ ctx[r].resp = RespOk("Thanks! Your message was received.")
                      /\ Len(mine) = 1
                      /\ mine[1].name = Field(ctx[r].body.name)
                      /\ mine[1].email = Field(ctx[r].body.email)
                      /\ mine[1].message = Field(ctx[r].body.message)

C1_Witness ==
    \E r \in Contexts :
        /\ ctx[r].kind = "contact" /\ ctx[r].pc = "done"
        /\ ctx[r].body.message = Absent
        /\ ctx[r].resp.status = 200
        /\ Len(RowsBy(contacts, r)) = 1

\* C2: a submit_contact request with well-typed fields whose trimmed name or
\* email is empty is answered 400 ok:false "Name and email are required.",
\* and never adds a row to contacts or chats.
C2_ContactRejected ==
    \A r \in Contexts :
        (ctx[r].kind = "contact" /\ InvalidContact(ctx[r].body)) =>
            /\ Answered(r)
            /\ ctx[r].resp = RespErr(400, "Name and email are required.")
            /\ ~ctx[r].resp.ok
            /\ \A i \in 1..Len(contacts) : contacts[i].by # r
            /\ \A i \in 1..Len(chats) : chats[i].by # r
            /\ ctx[r].pending = NoPending

C2_Witness ==
    \E r \in Contexts :
        /\ ctx[r].kind = "contact" /\ ctx[r].pc = "done"
        /\ Field(ctx[r].body.name) # <<>>
        /\ Field(ctx[r].body.email) = <<>>
        /\ ctx[r].resp.status = 400
        /\ \E q \in Contexts : Len(RowsBy(contacts, q)) = 1

\* C3: a chat_send request whose trimmed message is non-empty, and which meets
\* no store fault, is answered ok:true with a non-empty reply and has put
\* exactly two rows into chats: a "user" row with the trimmed message, then a
\* "bot" row with the reply that was returned.
C3_ChatTurnStored ==
    \A r \in Contexts :
        (ctx[r].kind = "chat" /\ ValidChat(ctx[r].body)) =>
            LET mine == RowsBy(chats, r)
            IN  /\ \A i \in 1..Len(contacts) : contacts[i].by # r
                /\ Len(mine) <= 2
                /\ (Answered(r) /\ ctx[r].fault = "none") =>
                      /\ ctx[r].resp.status = 200 /\ ctx[r].resp.ok
                      /\ ctx[r].resp.reply # <<>>
                      /\ Len(mine) = 2
                      /\ mine[1].sender = "user"
                      /\ mine[1].message = Field(ctx[r].body.message)
                      /\ mine[2].sender = "bot"
                      /\ mine[2].message = ctx[r].resp.reply
                      /\ mine[1].id < mine[2].id

C3_Witness ==
    \E r \in Contexts :
        /\ ctx[r].kind = "chat" /\ ctx[r].pc = "done"
        /\ ctx[r].resp.status = 200
        /\ ctx[r].resp.reply = PROJECTS
        /\ Len(RowsBy(chats, r)) = 2

\* C4: a chat_send request whose message is empty, missing or whitespace-only
\* is answered 400 ok:false "Empty message" and never adds a row to chats or
\* contacts.
C4_EmptyChatRejected ==
    \A r \in Contexts :
        (ctx[r].kind = "chat" /\ InvalidChat(ctx[r].body)) =>
            /\ Answered(r)
            /\ ctx[r].resp = RespErr(400, "Empty message")
            /\ ~ctx[r].resp.ok
            /\ \A i \in 1..Len(chats) : chats[i].by # r
            /\ \A i \in 1..Len(contacts) : contacts[i].by # r
            /\ ctx[r].pending = NoPending

C4_Witness ==
    \E r \in Contexts :
        /\ ctx[r].kind = "chat" /\ ctx[r].pc = "done"
        /\ ctx[r].body.message.t = "str" /\ ctx[r].body.message.s # <<>>
        /\ ctx[r].resp.status = 400
        /\ chats = <<>>

\* ------------------------------------------------------------------ C6
\* The chat_send request r was answered ok:true.
Succeeded(r) == ctx[r].kind = "chat" /\ Answered(r) /\ ctx[r].resp.status = 200

\* C6 as stated: every "user" row of a request answered ok:true is followed
\* at once, in id order, by a "bot" row of the same request with its reply.
C6_BotRowAdjacent ==
    \A r \in Contexts : Succeeded(r) =>
        \A i \in 1..Len(chats) :
            (chats[i].by = r /\ chats[i].sender = "user") =>
                /\ i + 1 <= Len(chats)
                /\ chats[i + 1].by = r
                /\ chats[i + 1].sender = "bot"
                /\ chats[i + 1].message = ctx[r].resp.reply

\* C6, amended: every "user" row of a request answered ok:true is followed
\* later in id order by exactly one "bot" row of the same request, which holds
\* its reply; every row between the two was written by another request.
C6_BotRowFollows ==
    \A r \in Contexts : Succeeded(r) =>
        \A i \in 1..Len(chats) :
            (chats[i].by = r /\ chats[i].sender = "user") =>
                /\ Cardinality({j \in 1..Len(chats) :
                                  chats[j].by = r /\ chats[j].sender = "bot"}) = 1
                /\ \E j \in (i + 1)..Len(chats) :
                      /\ chats[j].by = r
                      /\ chats[j].sender = "bot"
                      /\ chats[j].message = ctx[r].resp.reply
                      /\ chats[j].id > chats[i].id
                      /\ \A k \in (i + 1)..(j - 1) : chats[k].by # r

C6_Witness ==
    \E r \in Contexts :
        /\ Succeeded(r)
        /\ \E i \in 1..Len(chats) :
              /\ chats[i].by = r /\ chats[i].sender = "user"
              /\ i + 2 <= Len(chats)
              /\ chats[i + 1].by # r
              /\ chats[i + 2].by = r /\ chats[i + 2].sender = "bot"

\* ------------------------------------------------------------------ C7
InFlight(r) == ctx[r].pc \notin {"idle", "done"}

\* C7: a context opens at most one connection and g holds that one from then
\* on; once the context is done, on any exit path, whatever it opened is
\* closed; every open connection belongs to a context in flight; and no two
\* contexts in flight hold the same handle.
C7_ConnectionScoped ==
    /\ \A r \in Contexts :
          /\ Cardinality(ctx[r].opened) <= 1
          /\ ctx[r].database # None => ctx[r].opened = {ctx[r].database}
          /\ ctx[r].database = None => ctx[r].opened = {}
          /\ ctx[r].pc = "done" => (ctx[r].opened \subseteq closed /\ ctx[r].opened \cap conns = {})
          /\ InFlight(r) => ctx[r].opened \cap closed = {}
    /\ \A h \in conns : \E r \in Contexts : InFlight(r) /\ ctx[r].database = h
    /\ \A r1, r2 \in Contexts :
          (r1 # r2 /\ InFlight(r1) /\ InFlight(r2) /\ ctx[r1].database # None) =>
              ctx[r1].database # ctx[r2].database

C7_Witness ==
    \E r1, r2 \in Contexts :
        /\ ctx[r1].pc = "done" /\ ctx[r1].resp.status = 500
        /\ ctx[r1].opened # {} /\ ctx[r1].opened \subseteq closed
        /\ ctx[r2].pc = "done" /\ ctx[r2].resp.status = 200
        /\ ctx[r2].opened # {} /\ ctx[r2].opened \subseteq closed
        /\ conns = {}

\* ------------------------------------------------------------------ C8
ServerError == RespErr(500, "Server error")

\* C8: when the second insert or its commit fails after the user row was
\* committed, the answer is 500 "Server error", the user row of the request
\* is in chats and stays, and no bot row of the request is ever there; when
\* the first insert or its commit fails, the answer is the same and the
\* request has no row in chats.
C8_PartialWriteKept ==
    \A r \in Contexts : (ctx[r].kind = "chat" /\ ctx[r].fault # "none") =>
        LET mine == RowsBy(chats, r)
        IN  /\ ctx[r].fault \in {"insert_bot", "commit_bot"} =>
                  /\ ctx[r].resp = ServerError
                  /\ Len(mine) = 1
                  /\ mine[1].sender = "user"
                  /\ mine[1].message = Field(ctx[r].body.message)
            /\ ctx[r].fault \in {"insert_user", "commit_user"} =>
                  /\ ctx[r].resp = ServerError
                  /\ mine = <<>>

C8_Witness ==
    \E r \in Contexts :
        /\ ctx[r].kind = "chat" /\ ctx[r].pc = "done"
        /\ ctx[r].fault = "commit_bot"
        /\ Len(RowsBy(chats, r)) = 1
        /\ \E q \in Contexts : ctx[q].kind = "chat" /\ ctx[q].fault = "commit_user"
                               /\ ctx[q].pc = "done"

\* ------------------------------------------------------------------ C9
IsPrefix(s, t) == Len(s) <= Len(t) /\ SubSeq(t, 1, Len(s)) = s

\* C9: no step of init_db, submit_contact or chat_send changes or removes a
\* committed row or drops a table: each table only grows at its end; and a
\* run of init_db on the existing tables raises nothing unless the store fails.
C9_RowsOnlyAppended ==
    /\ [](\A r \in Contexts :
            (ctx[r].kind = "init" /\ ctx[r].fault = "none") => ~ctx[r].raised)
    /\ [][ /\ IsPrefix(contacts, contacts')
           /\ IsPrefix(chats, chats')
           /\ schema \subseteq schema' ]_vars

C9_Witness ==
    \E r \in Contexts :
        /\ ctx[r].kind = "init" /\ ctx[r].pc = "done"
        /\ ~ctx[r].raised
        /\ ctx[r].saw > 0
        /\ Len(contacts) + Len(chats) >= ctx[r].saw

====
